---- MODULE Spec2Model ----
(***************************************************************************)
(* Model of src/analyze_guides.py: the compliance checker of the           *)
(* connection guides (analyze_mdx_file), the simple-guide classifier       *)
(* (is_simple_connect_guide) and the driver (main).                        *)
(*                                                                         *)
(* Text is a sequence of atoms.  An atom is a piece of text that no        *)
(* pattern of the program splits: a word, a tag, a delimiter.  Substring   *)
(* tests, the three regular expressions and the f-strings are computed on  *)
(* atom sequences.                                                         *)
(***************************************************************************)
EXTENDS Integers, Sequences, FiniteSets, TLC

\* ------------------------------------------------------------------ bounds

\* The number of <Step> items a generated guide holds besides its <Steps> tag.
MaxStepItems == 3
\* The number of directory entries the walk yields.
MaxFiles == 3

\* ------------------------------------------------------------------- atoms

NL == "\n"
SP == " "
DQ == "\""
SQ == "'"
DASHES == "---"
QUOTES == {DQ, SQ}
\* \s of the regular expressions, over the atoms
WHITESPACE == {SP, NL}

\* ----------------------------------------------------------- text helpers

\* pattern in content
Contains(content, pattern) ==
  \E i \in 1..(Len(content) - Len(pattern) + 1) :
     SubSeq(content, i, i + Len(pattern) - 1) = pattern

\* content.count(pattern), for a pattern that cannot overlap itself
Count(content, pattern) ==
  Cardinality({i \in 1..(Len(content) - Len(pattern) + 1) :
                 SubSeq(content, i, i + Len(pattern) - 1) = pattern})

\* text.startswith(prefix)
StartsWith(text, prefix) ==
  /\ Len(prefix) <= Len(text)
  /\ SubSeq(text, 1, Len(prefix)) = prefix

\* A failed re.match / re.search (None), and a successful one with group(1).
NoMatch == [matched |-> FALSE, group1 |-> <<>>]
Match(g) == [matched |-> TRUE, group1 |-> g]

\* The least element of a non-empty set of positions.
Min(S) == CHOOSE x \in S : \A y \in S : x <= y

\* The first position from `from` on whose atom is in `atoms`, 0 when none.
FirstIn(text, from, atoms) ==
  IF \E k \in from..Len(text) : text[k] \in atoms
  THEN Min({k \in from..Len(text) : text[k] \in atoms})
  ELSE 0

\* The first position from `from` on whose atom is not whitespace, 0 when none.
SkipWhitespace(text, from) ==
  IF \E k \in from..Len(text) : text[k] \notin WHITESPACE
  THEN Min({k \in from..Len(text) : text[k] \notin WHITESPACE})
  ELSE 0

\* (.*?)\n--- after the opening "---\n": the lazy group ends before the
\* first "\n---" that follows; ends are the positions of those.
FrontmatterGroup(content, ends) ==
  IF ends = {} THEN NoMatch ELSE Match(SubSeq(content, 3, Min(ends) - 1))

\* re.match(r'^---\n(.*?)\n---', content, re.DOTALL)
FrontmatterMatch(content) ==
  IF Len(content) >= 2 /\ content[1] = DASHES /\ content[2] = NL
  THEN FrontmatterGroup(content, {j \in 3..(Len(content) - 1) :
                                    content[j] = NL /\ content[j + 1] = DASHES})
  ELSE NoMatch

\* ([^"\']+)["\'] after the opening quote at q: one or more atoms that are
\* no quotes, up to the next quote at r (0 when there is none).
QuotedGroup(text, q, r) ==
  IF r = 0 \/ r = q + 1 THEN NoMatch ELSE Match(SubSeq(text, q + 1, r - 1))

\* ["\']([^"\']+)["\'] at position q (0: the text ended in whitespace)
QuotedAt(text, q) ==
  IF q = 0 THEN NoMatch
  ELSE IF text[q] \notin QUOTES THEN NoMatch
  ELSE QuotedGroup(text, q, FirstIn(text, q + 1, QUOTES))

\* key\s*["\']([^"\']+)["\'] tried at position p of text: the key, any
\* whitespace, a quote, one or more atoms that are no quotes, a quote.
FieldMatchAt(text, key, p) ==
  IF text[p] # key THEN NoMatch ELSE QuotedAt(text, SkipWhitespace(text, p + 1))

\* The match at the leftmost of the positions where the pattern matches.
LeftmostMatch(text, key, hits) ==
  IF hits = {} THEN NoMatch ELSE FieldMatchAt(text, key, Min(hits))

\* re.search(key + r'\s*["\']([^"\']+)["\']', text)
FieldSearch(text, key) ==
  LeftmostMatch(text, key, {p \in 1..Len(text) : FieldMatchAt(text, key, p).matched})

\* ------------------------------------------------------------ the patterns

\* line 42
FOOTER_IMPORT == <<"import IntegrationFooter from \"/snippets/integration-footer.mdx\"">>
\* line 46
WARNING_TAG == <<"<Warning>">>
\* line 90: '<Step', which '<Steps>' and every '<Step ...>' item begin with
STEP_MARKER == <<"<Step">>
\* line 50
STEPS_TAG == <<"<Step", "s>">>
\* line 54
FOOTER_TAG == <<"<IntegrationFooter />">>
\* line 60: f"## Linking your {provider} Account"
linking_pattern(provider) == <<"## ", "Linking your", SP>> \o provider \o <<SP, "Account">>
\* line 61: the headings accepted instead
GENERIC_LINKING == { <<"## ", "Linking your", SP, "Account">>,
                     <<"## ", "Connecting to StackOne">>,
                     <<"## ", "Connect with StackOne">>,
                     <<"## ", "Connecting with StackOne">> }
\* line 65
AVAILABLE_DATA == <<"## ", "Available data">>
\* line 69
USEFUL_LINKS == <<"## ", "Useful Links">>
\* line 38
DESC_PREFIX == <<"Follow these steps to connect">>
\* line 37: f"Follow these steps to connect {title} via the StackOne Hub successfully."
expected_desc(title) ==
  DESC_PREFIX \o <<SP>> \o title \o <<SP, "via the StackOne Hub successfully.">>
\* lines 83-87
simple_patterns == { <<"Click Connect Account">>,
                     <<"In the modal, click the Connect button">>,
                     <<"Click the Connect button">> }
\* line 95
auth_keywords == { <<"API Key">>, <<"Client ID">>, <<"Client Secret">>,
                   <<"OAuth">>, <<"Token">>, <<"Credentials">> }
\* line 90: more '<Step' than this and the guide is not simple
StepLimit == 3

\* -------------------------------------------------------------- the issues

CouldNotRead(e) == <<"Could not read file: ", e>>
MissingFrontmatter == <<"Missing frontmatter">>
MissingTitle == <<"Missing or incorrectly formatted title">>
MissingDescription == <<"Missing description">>
IncorrectDescription(expected, desc) ==
  <<"Incorrect description format. Expected: '">> \o expected
     \o <<"', Got: '">> \o desc \o <<"'">>
MissingImport == <<"Missing IntegrationFooter import">>
MissingWarning == <<"Missing Warning section">>
MissingSteps == <<"Missing Steps component">>
MissingFooter == <<"Missing IntegrationFooter component">>
MissingLinking(provider) ==
  <<"Missing '", "Linking your", SP>> \o provider \o <<SP, "Account", "' section">>
MissingAvailableData == <<"Missing 'Available data' section">>
MissingUsefulLinks == <<"Missing 'Useful Links' section (recommended)">>

\* ------------------------------------------------------- analyze_mdx_file

\* How a call ends: it returns its issue list, or an exception leaves it.
Returned(issues) == [raised |-> FALSE, error |-> "", issues |-> issues]
Raised(error) == [raised |-> TRUE, error |-> error, issues |-> <<>>]

\* A local variable of the function: not yet assigned, or holding a match.
UnboundLocal == [bound |-> FALSE, matched |-> FALSE, group1 |-> <<>>]
Bound(m) == [bound |-> TRUE, matched |-> m.matched, group1 |-> m.group1]

\* DescriptionCheck with the prefix test dropped: only the exact text passes.
DescriptionCheck_ExactOnly(desc, title) ==
  IF desc # expected_desc(title)
  THEN << IncorrectDescription(expected_desc(title), desc) >>
  ELSE <<>>

\* lines 36-39: the description against the title
DescriptionCheck(desc, title) ==
  IF desc # expected_desc(title) /\ ~StartsWith(desc, DESC_PREFIX)
  THEN << IncorrectDescription(expected_desc(title), desc) >>
  ELSE <<>>

\* lines 24-39, the frontmatter found: its title and its description.
\* title is assigned only when the title matched (line 29), and line 37
\* reads it whenever the description matched.
FieldChecks(title_match, desc_match) ==
  IF ~desc_match.matched
  THEN [raised |-> FALSE, error |-> "",
        issues |-> (IF ~title_match.matched THEN << MissingTitle >> ELSE <<>>)
                     \o << MissingDescription >>,
        title_match |-> Bound(title_match)]
  ELSE IF ~title_match.matched
  THEN [raised |-> TRUE, error |-> "UnboundLocalError: title",
        issues |-> << MissingTitle >>, title_match |-> Bound(title_match)]
  ELSE [raised |-> FALSE, error |-> "",
        issues |-> DescriptionCheck(desc_match.group1, title_match.group1),
        title_match |-> Bound(title_match)]

\* lines 19-39: title_match is assigned only when the frontmatter matched
FrontmatterFields(frontmatter_match) ==
  IF ~frontmatter_match.matched
  THEN [raised |-> FALSE, error |-> "", issues |-> << MissingFrontmatter >>,
        title_match |-> UnboundLocal]
  ELSE FieldChecks(FieldSearch(frontmatter_match.group1, "title:"),
                   FieldSearch(frontmatter_match.group1, "description:"))

\* lines 18-39
FrontmatterChecks(content) == FrontmatterFields(FrontmatterMatch(content))

\* lines 42-55: the import, the Warning, the Steps and the footer tag
ComponentChecks(content) ==
     (IF ~Contains(content, FOOTER_IMPORT) THEN << MissingImport >> ELSE <<>>)
  \o (IF ~Contains(content, WARNING_TAG) THEN << MissingWarning >> ELSE <<>>)
  \o (IF ~Contains(content, STEPS_TAG) THEN << MissingSteps >> ELSE <<>>)
  \o (IF ~Contains(content, FOOTER_TAG) THEN << MissingFooter >> ELSE <<>>)

\* lines 59-62, for the provider of the title
ProviderCheck(content, provider) ==
  IF /\ ~Contains(content, linking_pattern(provider))
     /\ \A h \in GENERIC_LINKING : ~Contains(content, h)
  THEN << MissingLinking(provider) >>
  ELSE <<>>

\* lines 58-62, with title_match bound
LinkingCheck(content, title_match) ==
  IF title_match.matched THEN ProviderCheck(content, title_match.group1) ELSE <<>>

\* SectionChecks with the Useful Links heading only recommended: no issue.
SectionChecks_LinksOptional(content) ==
  IF ~Contains(content, AVAILABLE_DATA) THEN << MissingAvailableData >> ELSE <<>>

\* lines 65-70
SectionChecks(content) ==
     (IF ~Contains(content, AVAILABLE_DATA) THEN << MissingAvailableData >> ELSE <<>>)
  \o (IF ~Contains(content, USEFUL_LINKS) THEN << MissingUsefulLinks >> ELSE <<>>)

\* lines 42-72, after the frontmatter checks fm.  Line 58 reads title_match,
\* which is unbound when the frontmatter did not match.
BodyChecks(content, fm) ==
  IF fm.raised THEN Raised(fm.error)
  ELSE IF ~fm.title_match.bound THEN Raised("UnboundLocalError: title_match")
  ELSE Returned(fm.issues \o ComponentChecks(content)
                  \o LinkingCheck(content, fm.title_match)
                  \o SectionChecks(content))

\* lines 6-72.  A file is [ok, content, error]: what open and read give.
analyze_mdx_file(file) ==
  IF ~file.ok THEN Returned(<< CouldNotRead(file.error) >>)
  ELSE BodyChecks(file.content, FrontmatterChecks(file.content))

\* ------------------------------------------------ is_simple_connect_guide

\* SimpleContent with the step test off by one: three markers are too many.
SimpleContent_OffByOne(content) ==
  IF Count(content, STEP_MARKER) >= StepLimit THEN FALSE
  ELSE IF \E pattern \in simple_patterns : Contains(content, pattern)
  THEN \A keyword \in auth_keywords : ~Contains(content, keyword)
  ELSE FALSE

\* lines 90-99
SimpleContent(content) ==
  IF Count(content, STEP_MARKER) > StepLimit THEN FALSE
  ELSE IF \E pattern \in simple_patterns : Contains(content, pattern)
  THEN \A keyword \in auth_keywords : ~Contains(content, keyword)
  ELSE FALSE

\* lines 74-99
is_simple_connect_guide(file) == IF ~file.ok THEN FALSE ELSE SimpleContent(file.content)

\* ------------------------------------------------------- the guides checked

\* Provider names a title holds.
Acme == <<"Acme">>
Globex == <<"Globex">>

TitleLine(quote, title) == <<"title:", SP, quote>> \o title \o <<quote>>
DescLine(desc) == <<"description:", SP, DQ>> \o desc \o <<DQ>>

\* The title line of a frontmatter: none, unquoted, quoted either way.
TitleLines == { <<>>, <<"title:", SP>> \o Acme, TitleLine(DQ, Acme),
                TitleLine(SQ, Acme), TitleLine(DQ, Globex) }
\* Its description line: none, the canonical one of either provider, one that
\* only starts as the canonical one does, and one that does not.
Descriptions == { expected_desc(Acme), expected_desc(Globex),
                  DESC_PREFIX \o <<SP>> \o Acme \o <<SP, "quickly.">>,
                  <<"Learn how to connect", SP>> \o Acme }
DescLines == { <<>> } \cup { DescLine(d) : d \in Descriptions }

FmBlock(t, d) ==
  <<DASHES, NL>> \o t \o (IF t # <<>> /\ d # <<>> THEN <<NL>> ELSE <<>>) \o d
     \o <<NL, DASHES, NL>>

\* What a guide opens with: nothing, an opening delimiter that is never
\* closed, or a frontmatter block.
NoFrontmatter == <<>>
Frontmatters ==
  { NoFrontmatter, <<DASHES, NL>> \o TitleLine(DQ, Acme) \o <<NL>> }
    \cup { FmBlock(t, d) : t \in TitleLines, d \in DescLines }

\* The sections of a body, each present or not.
SectionNames == {"import", "warning", "steps", "footer", "available", "useful"}
Section(name, S, text) == IF name \in S THEN text \o <<NL>> ELSE <<>>

\* The linking heading of a body: none, a provider's, or a generic one.
LinkHeadings == { <<>>, linking_pattern(Acme), linking_pattern(Globex) } \cup GENERIC_LINKING

RECURSIVE StepItems(_)
StepItems(n) == IF n = 0 THEN <<>> ELSE <<"<Step", ">", NL>> \o StepItems(n - 1)

\* The sentence of a step: nothing, or one of the simple phrases.
Phrases == { <<>> } \cup simple_patterns
\* A word of the guide's text: nothing, an authentication keyword, or a
\* keyword in another case, which the case-sensitive test does not see.
Words == { <<>>, <<"token">> } \cup auth_keywords

Guide(fm, S, link, items, phrase, word) ==
  fm \o Section("import", S, FOOTER_IMPORT)
     \o Section("warning", S, WARNING_TAG)
     \o (IF link = <<>> THEN <<>> ELSE link \o <<NL>>)
     \o Section("steps", S, STEPS_TAG)
     \o StepItems(items)
     \o (IF phrase = <<>> THEN <<>> ELSE phrase \o <<NL>>)
     \o (IF word = <<>> THEN <<>> ELSE <<"Enter your", SP>> \o word \o <<NL>>)
     \o Section("available", S, AVAILABLE_DATA)
     \o Section("useful", S, USEFUL_LINKS)
     \o Section("footer", S, FOOTER_TAG)

\* The reasons a read fails with (the text of the exception).
ReadErrors == {"[Errno 13] Permission denied", "'utf-8' codec can't decode byte 0xff"}
Readable(content) == [ok |-> TRUE, content |-> content, error |-> ""]
Unreadable(e) == [ok |-> FALSE, content |-> <<>>, error |-> e]

\* Scenario A of the template: everything in place for provider Acme.
FullFrontmatter == FmBlock(TitleLine(DQ, Acme), DescLine(expected_desc(Acme)))

\* The contents the two functions are applied to: every frontmatter with every
\* body of sections and headings, and every mix of step count, phrase and
\* word in a bare and in a complete guide.
CheckedContents ==
  { Guide(fm, S, link, 0, <<>>, <<>>) :
      fm \in Frontmatters, S \in SUBSET SectionNames, link \in LinkHeadings }
  \cup
  { Guide(fm, S, linking_pattern(Acme), n, phrase, word) :
      fm \in Frontmatters, S \in {{}, {"steps"}, SectionNames},
      n \in 0..MaxStepItems, phrase \in Phrases, word \in Words }

CheckedFiles == { Readable(c) : c \in CheckedContents } \cup { Unreadable(e) : e \in ReadErrors }

\* ---------------------------------------------------------------- paths

\* A path is the sequence of its parts, a part the sequence of its atoms.
REPO_ROOT == << <<"/">>, <<"home">>, <<"runner">>, <<"work">>, <<"hub-docs">>, <<"hub-docs">> >>
\* line 102
base_path == REPO_ROOT \o << <<"connection-guides">> >>

MDX == ".mdx"
INTRODUCTION == <<"introduction", MDX>>
BAMBOOHR == <<"bamboohr", MDX>>
WORKDAY == <<"workday", MDX>>
NOTES == <<"notes", ".md">>
ATS == <<"ats">>

\* The atoms of the paths, in the order of Python's string comparison.
AtomOrder == << ".md", ".mdx", "/", "ats", "bamboohr", "connection-guides", "home",
                "hub-docs", "introduction", "notes", "runner", "work", "workday" >>
AtomRank(a) == CHOOSE i \in 1..Len(AtomOrder) : AtomOrder[i] = a

\* s < t for two sequences compared element by element: the first difference
\* decides, and a proper prefix is less.
RECURSIVE LexLess(_, _, _)
LexLess(s, t, depth) ==
  IF t = <<>> THEN FALSE
  ELSE IF s = <<>> THEN TRUE
  ELSE IF Head(s) = Head(t) THEN LexLess(Tail(s), Tail(t), depth)
  ELSE IF depth = 0 THEN AtomRank(Head(s)) < AtomRank(Head(t))
  ELSE LexLess(Head(s), Head(t), 0)

\* Path.__lt__: the parts compared as a list of strings
PathLess(p, q) == LexLess(p, q, 1)

\* sorted(paths), by insertion
RECURSIVE Insert(_, _)
Insert(p, s) ==
  IF s = <<>> THEN <<p>>
  ELSE IF PathLess(p, Head(s)) THEN <<p>> \o s
  ELSE <<Head(s)>> \o Insert(p, Tail(s))

RECURSIVE sorted(_)
sorted(paths) == IF paths = <<>> THEN <<>> ELSE Insert(Head(paths), sorted(Tail(paths)))

\* file_path.relative_to(Path('/home/runner/work/hub-docs/hub-docs'))
relative_to(path, root) == SubSeq(path, Len(root) + 1, Len(path))

\* str(path) of a relative path: its parts joined by "/"
RECURSIVE str(_)
str(path) ==
  IF path = <<>> THEN <<>>
  ELSE IF Len(path) = 1 THEN Head(path)
  ELSE Head(path) \o <<"/">> \o str(Tail(path))

\* line 108: file.endswith('.mdx') and file != 'introduction.mdx'
IsCandidate(name) == name[Len(name)] = MDX /\ name # INTRODUCTION

\* ------------------------------------------------------- the tree walked

\* The files that may exist under base_path, by their parts below it.
TreePaths == { <<BAMBOOHR>>, <<WORKDAY>>, <<INTRODUCTION>>, <<NOTES>>,
               <<ATS, BAMBOOHR>>, <<ATS, INTRODUCTION>> }

\* Scenario A for provider Globex, its title in single quotes.
GlobexFrontmatter == FmBlock(TitleLine(SQ, Globex), DescLine(expected_desc(Globex)))

\* What a guide of the tree may hold.
ClickConnect == <<"Click Connect Account">>
TreeContents ==
  { Guide(FullFrontmatter, SectionNames \ {"useful"}, linking_pattern(Acme), 0, <<>>, <<>>),
    Guide(FullFrontmatter, SectionNames \ {"useful"}, linking_pattern(Acme), 1, ClickConnect, <<"token">>),
    Guide(FullFrontmatter, SectionNames, linking_pattern(Acme), MaxStepItems, ClickConnect, <<>>),
    Guide(GlobexFrontmatter, SectionNames, linking_pattern(Globex), 1, ClickConnect, <<"OAuth">>),
    Guide(NoFrontmatter, {}, <<>>, 0, ClickConnect, <<>>),
    Guide(NoFrontmatter, {"steps"}, <<>>, 1, ClickConnect, <<"OAuth">>),
    Guide(FmBlock(<<>>, <<>>), {}, <<>>, 0, <<>>, <<>>),
    Guide(FmBlock(<<>>, DescLine(expected_desc(Acme))), SectionNames, <<>>, 0, <<>>, <<>>) }
TreeFiles == { Readable(c) : c \in TreeContents }
               \cup { Unreadable("[Errno 13] Permission denied") }

\* A directory entry: where it is and what reading it gives.  The files main
\* never opens all hold the same text.
Entries ==
  { [path |-> p, file |-> f] : p \in {q \in TreePaths : IsCandidate(q[Len(q)])},
                               f \in TreeFiles }
  \cup { [path |-> p, file |-> Readable(<<"Welcome", NL>>)] :
           p \in {q \in TreePaths : ~IsCandidate(q[Len(q)])} }

\* What os.walk may yield after the entries of l: a file it has not yielded,
\* and, the walk being top-down, none of base_path once it has reached the
\* subdirectory.  Each directory's files come in whatever order the file
\* system lists them.
CanFollow(l, e) ==
  \A i \in DOMAIN l : l[i].path # e.path /\ Len(l[i].path) <= Len(e.path)

\* ---------------------------------------------------------------- state

VARIABLES
  listing,                \* main: what os.walk has yielded, in its order
  walked,                 \* main: how many entries the walk has yielded
  mdx_files,              \* main: line 105
  queue,                  \* main: sorted(mdx_files), line 117
  next_file,              \* main: the position of the loop in queue
  compliant_files,        \* main: line 113
  non_compliant_files,    \* main: line 114
  simple_connect_guides,  \* main: line 115
  analyzed,               \* main: the paths analyze_mdx_file was called with
  output,                 \* main: the lines printed
  pc,                     \* main: where it is
  arg,                    \* a call of one function alone: its file
  ret_simple,             \* what is_simple_connect_guide gave for arg
  ret_analyze             \* how analyze_mdx_file ended for arg

main_vars == << listing, walked, mdx_files, queue, next_file, compliant_files,
                non_compliant_files, simple_connect_guides, analyzed, output, pc >>
call_vars == << arg, ret_simple, ret_analyze >>
vars == << main_vars, call_vars >>

NotCalled == [called |-> FALSE, value |-> FALSE]
NotAnalyzed == [called |-> FALSE, raised |-> FALSE, error |-> "", issues |-> <<>>]

\* ----------------------------------------------------------------- main

MainInit ==
  /\ walked = 0
  /\ mdx_files = <<>>
  /\ queue = <<>>
  /\ next_file = 1
  /\ compliant_files = <<>>
  /\ non_compliant_files = <<>>
  /\ simple_connect_guides = <<>>
  /\ analyzed = {}
  /\ output = <<>>
  /\ pc = "walk"

CallInit ==
  /\ ret_simple = NotCalled
  /\ ret_analyze = NotAnalyzed

Init ==
  /\ listing = <<>>
  /\ MainInit
  /\ arg = Unreadable("")
  /\ CallInit

\* open(file_path).read(): the entry of the listing at that path
Open(file_path) ==
  (CHOOSE e \in {listing[i] : i \in DOMAIN listing} : base_path \o e.path = file_path).file

\* lines 106-109: one file of the walk, kept when it is a candidate
Collect(files, entry) ==
  IF IsCandidate(entry.path[Len(entry.path)])
  THEN Append(files, base_path \o entry.path)
  ELSE files

\* lines 106-109: the walk yields one more file
Walk ==
  /\ pc = "walk"
  /\ walked < MaxFiles
  /\ \E entry \in Entries :
       /\ CanFollow(listing, entry)
       /\ listing' = Append(listing, entry)
       /\ mdx_files' = Collect(mdx_files, entry)
  /\ walked' = walked + 1
  /\ UNCHANGED << queue, next_file, compliant_files, non_compliant_files,
                  simple_connect_guides, analyzed, output, pc, call_vars >>

\* LoopOrder without the sort: the loop takes the files as the walk gave them.
LoopOrder_AsWalked(files) == files

\* line 117: the order the loop takes the files in
LoopOrder(files) == sorted(files)

\* lines 111-117: the walk has yielded every file there is; the loop starts on
\* the sorted paths
StartLoop ==
  /\ pc = "walk"
  /\ output' = Append(output, [line |-> "Found", count |-> Len(mdx_files)])
  /\ queue' = LoopOrder(mdx_files)
  /\ pc' = "loop"
  /\ UNCHANGED << listing, walked, mdx_files, next_file, compliant_files,
                  non_compliant_files, simple_connect_guides, analyzed, call_vars >>

\* Route with the recommended issue not counted: a file whose only issue is
\* the missing Useful Links heading goes to the compliant bucket.
Route_RecommendedIgnored(issues) ==
  IF issues.raised THEN [bucket |-> "raised", issues |-> <<>>]
  ELSE IF issues.issues \in { <<>>, << MissingUsefulLinks >> }
  THEN [bucket |-> "compliant", issues |-> <<>>]
  ELSE [bucket |-> "non_compliant", issues |-> issues.issues]

\* lines 128-134: where a file goes by how analyze_mdx_file ended ("raised"
\* when it raised), and the issues it goes with
Route(issues) ==
  IF issues.raised THEN [bucket |-> "raised", issues |-> <<>>]
  ELSE IF issues.issues = <<>> THEN [bucket |-> "compliant", issues |-> <<>>]
  ELSE [bucket |-> "non_compliant", issues |-> issues.issues]

\* Outcome with the exemption lost: every file is analyzed.
Outcome_NoExemption(file) == Route(analyze_mdx_file(file))

\* lines 121-134 for one file
Outcome(file) ==
  IF is_simple_connect_guide(file) THEN [bucket |-> "simple", issues |-> <<>>]
  ELSE Route(analyze_mdx_file(file))

Current == queue[next_file]
RelativePath(file_path) == str(relative_to(file_path, REPO_ROOT))

InLoop == pc = "loop" /\ next_file <= Len(queue)

\* lines 121-123
ExcludeSimple ==
  /\ InLoop
  /\ Outcome(Open(Current)).bucket = "simple"
  /\ simple_connect_guides' = Append(simple_connect_guides, RelativePath(Current))
  /\ next_file' = next_file + 1
  /\ UNCHANGED << listing, walked, mdx_files, queue, compliant_files,
                  non_compliant_files, analyzed, output, pc, call_vars >>

\* lines 126-129
RecordCompliant ==
  /\ InLoop
  /\ Outcome(Open(Current)).bucket = "compliant"
  /\ compliant_files' = Append(compliant_files, RelativePath(Current))
  /\ analyzed' = analyzed \cup {Current}
  /\ next_file' = next_file + 1
  /\ UNCHANGED << listing, walked, mdx_files, queue, non_compliant_files,
                  simple_connect_guides, output, pc, call_vars >>

\* lines 126-134
RecordNonCompliant ==
  /\ InLoop
  /\ Outcome(Open(Current)).bucket = "non_compliant"
  /\ non_compliant_files' =
       Append(non_compliant_files,
              [path |-> RelativePath(Current), issues |-> Outcome(Open(Current)).issues])
  /\ analyzed' = analyzed \cup {Current}
  /\ next_file' = next_file + 1
  /\ UNCHANGED << listing, walked, mdx_files, queue, compliant_files,
                  simple_connect_guides, output, pc, call_vars >>

\* line 126: analyze_mdx_file raises, nothing catches it, main ends there
Abort ==
  /\ InLoop
  /\ Outcome(Open(Current)).bucket = "raised"
  /\ analyzed' = analyzed \cup {Current}
  /\ pc' = "raised"
  /\ UNCHANGED << listing, walked, mdx_files, queue, next_file, compliant_files,
                  non_compliant_files, simple_connect_guides, output, call_vars >>

\* lines 136-159
Report ==
  << [line |-> "EXCLUDED", count |-> Len(simple_connect_guides)] >>
    \o [i \in DOMAIN simple_connect_guides |-> [line |-> "-", file |-> simple_connect_guides[i]]]
    \o << [line |-> "COMPLIANT", count |-> Len(compliant_files)] >>
    \o [i \in DOMAIN compliant_files |-> [line |-> "-", file |-> compliant_files[i]]]
    \o << [line |-> "NON-COMPLIANT", count |-> Len(non_compliant_files)] >>
    \o [i \in DOMAIN non_compliant_files |-> [line |-> "file", info |-> non_compliant_files[i]]]
    \o << [line |-> "Total", count |-> Len(mdx_files)],
          [line |-> "Simple", count |-> Len(simple_connect_guides)],
          [line |-> "Compliant", count |-> Len(compliant_files)],
          [line |-> "Updates", count |-> Len(non_compliant_files)] >>

PrintResults ==
  /\ pc = "loop"
  /\ next_file > Len(queue)
  /\ output' = output \o Report
  /\ pc' = "done"
  /\ UNCHANGED << listing, walked, mdx_files, queue, next_file, compliant_files,
                  non_compliant_files, simple_connect_guides, analyzed, call_vars >>

Next == Walk \/ StartLoop \/ ExcludeSimple \/ RecordCompliant \/ RecordNonCompliant
          \/ Abort \/ PrintResults

Spec == Init /\ [][Next]_vars

\* ------------------------------------------------- each function on its own

CallsInit ==
  /\ listing = <<>>
  /\ MainInit
  /\ arg \in CheckedFiles
  /\ CallInit

CallIsSimple ==
  /\ ~ret_simple.called
  /\ ret_simple' = [called |-> TRUE, value |-> is_simple_connect_guide(arg)]
  /\ UNCHANGED << main_vars, arg, ret_analyze >>

CallAnalyze ==
  /\ ~ret_analyze.called
  /\ ret_analyze' = [called |-> TRUE] @@ analyze_mdx_file(arg)
  /\ UNCHANGED << main_vars, arg, ret_simple >>

CallsNext == CallIsSimple \/ CallAnalyze

CallsSpec == CallsInit /\ [][CallsNext]_vars

\* ------------------------------------------------------------ properties

Range(s) == { s[i] : i \in DOMAIN s }

\* The candidates among the files the walk yielded, as the report names them.
CandidateNames ==
  { RelativePath(base_path \o listing[i].path) :
      i \in { j \in DOMAIN listing : IsCandidate(listing[j].path[Len(listing[j].path)]) } }

NonCompliantPaths == { non_compliant_files[i].path : i \in DOMAIN non_compliant_files }

\* main has ended: it printed its report, or an exception left it.
MainEnded == pc \in {"done", "raised"}

\* The loop is past position k of queue.
Processed(k) == k \in DOMAIN queue /\ k < next_file

\* The entries of non_compliant_files for the file at position k of queue.
EntriesOf(k) ==
  { i \in DOMAIN non_compliant_files :
      non_compliant_files[i].path = RelativePath(queue[k]) }

InSomeBucket(k) ==
  RelativePath(queue[k]) \in
    Range(simple_connect_guides) \cup Range(compliant_files) \cup NonCompliantPaths

\* C1: once main has ended, whatever the files hold, the three buckets are
\* pairwise disjoint and together hold exactly the candidates, each once.
C1_EveryCandidateInOneBucket ==
  MainEnded =>
    /\ Range(simple_connect_guides) \cup Range(compliant_files) \cup NonCompliantPaths
         = CandidateNames
    /\ Range(simple_connect_guides) \cap Range(compliant_files) = {}
    /\ Range(simple_connect_guides) \cap NonCompliantPaths = {}
    /\ Range(compliant_files) \cap NonCompliantPaths = {}
    /\ Len(simple_connect_guides) + Len(compliant_files) + Len(non_compliant_files)
         = Cardinality(CandidateNames)

\* C2: for a readable content with no frontmatter block, analyze_mdx_file
\* returns; its list starts with "Missing frontmatter", holds no title, no
\* description and no linking issue, and then the issues of checks 4-7, 9, 10.
C2_MissingFrontmatterReturns ==
  (ret_analyze.called /\ arg.ok /\ ~FrontmatterMatch(arg.content).matched) =>
    /\ ~ret_analyze.raised
    /\ ret_analyze.issues =
         << MissingFrontmatter >> \o ComponentChecks(arg.content)
            \o SectionChecks(arg.content)

\* C3: for a readable content whose frontmatter holds no quoted title,
\* whether or not it holds a quoted description, analyze_mdx_file returns;
\* its list starts with the title issue and ends with the issues of checks
\* 4-7, 9 and 10.
C3_MissingTitleReturns ==
  (/\ ret_analyze.called /\ arg.ok
   /\ FrontmatterMatch(arg.content).matched
   /\ ~FieldSearch(FrontmatterMatch(arg.content).group1, "title:").matched) =>
    /\ ~ret_analyze.raised
    /\ ret_analyze.issues # <<>>
    /\ Head(ret_analyze.issues) = MissingTitle
    /\ LET tail == ComponentChecks(arg.content) \o SectionChecks(arg.content)
           n == Len(ret_analyze.issues)
       IN /\ n >= Len(tail) + 1
          /\ SubSeq(ret_analyze.issues, n - Len(tail) + 1, n) = tail

\* C4: is_simple_connect_guide returns True exactly when the file is
\* readable, holds at most 3 '<Step', holds one of the three phrases and
\* holds none of the six keywords.
C4_SimpleExactlyWhen ==
  ret_simple.called =>
    ( ret_simple.value <=>
        /\ arg.ok
        /\ Count(arg.content, <<"<Step">>) <= 3
        /\ \E phrase \in { <<"Click Connect Account">>,
                           <<"In the modal, click the Connect button">>,
                           <<"Click the Connect button">> } :
              Contains(arg.content, phrase)
        /\ \A keyword \in { <<"API Key">>, <<"Client ID">>, <<"Client Secret">>,
                            <<"OAuth">>, <<"Token">>, <<"Credentials">> } :
              ~Contains(arg.content, keyword) )

\* A guide found simple with its <Steps> tag and two items: 3 '<Step' in all.
C4_Witness ==
  /\ ret_simple.called /\ ret_simple.value
  /\ Contains(arg.content, STEPS_TAG)
  /\ Count(arg.content, STEP_MARKER) = 3

\* C5: a file that is a simple connect guide is never analyzed and never in
\* compliant_files or non_compliant_files; once the loop is past it, it is
\* in simple_connect_guides.
C5_SimpleOnlyExcluded ==
  \A k \in DOMAIN queue :
    is_simple_connect_guide(Open(queue[k])) =>
      LET name == RelativePath(queue[k])
      IN /\ queue[k] \notin analyzed
         /\ name \notin Range(compliant_files)
         /\ name \notin NonCompliantPaths
         /\ Processed(k) => name \in Range(simple_connect_guides)

\* An excluded guide that the checks would not have passed, in a finished run.
C5_Witness ==
  /\ pc = "done"
  /\ \E k \in DOMAIN queue :
       /\ RelativePath(queue[k]) \in Range(simple_connect_guides)
       /\ ~analyze_mdx_file(Open(queue[k])).raised
       /\ Len(analyze_mdx_file(Open(queue[k])).issues) >= 1

\* C6: a file that is not simple is in compliant_files exactly when
\* analyze_mdx_file returned the empty list for it, and in
\* non_compliant_files, with the list returned, exactly when that list is
\* not empty.
C6_BucketByIssues ==
  \A k \in DOMAIN queue :
    LET file == Open(queue[k])
    IN ~is_simple_connect_guide(file) =>
      LET result == analyze_mdx_file(file)
          returned == queue[k] \in analyzed /\ ~result.raised
      IN /\ RelativePath(queue[k]) \in Range(compliant_files)
              <=> (returned /\ result.issues = <<>>)
         /\ EntriesOf(k) # {} <=> (returned /\ result.issues # <<>>)
         /\ \A i \in EntriesOf(k) : non_compliant_files[i].issues = result.issues
         /\ Processed(k) => queue[k] \in analyzed

\* A finished run with a file in each of the two buckets.
C6_Witness ==
  /\ pc = "done"
  /\ compliant_files # <<>>
  /\ non_compliant_files # <<>>

\* C7: once main has ended, a file the loop found unreadable is once in
\* non_compliant_files, with the one issue "Could not read file: ...", in
\* no other bucket, and every file after it has been put in a bucket.
C7_UnreadableDoesNotStopRun ==
  \A k \in DOMAIN queue :
    (MainEnded /\ Processed(k) /\ ~Open(queue[k]).ok) =>
      /\ Cardinality(EntriesOf(k)) = 1
      /\ \A i \in EntriesOf(k) :
           non_compliant_files[i].issues = << CouldNotRead(Open(queue[k]).error) >>
      /\ RelativePath(queue[k]) \notin Range(simple_connect_guides)
      /\ RelativePath(queue[k]) \notin Range(compliant_files)
      /\ \A j \in (k + 1)..Len(queue) : InSomeBucket(j)

\* Scenario A for provider T: the frontmatter with title T and the canonical
\* description, and everything the template asks for but the Useful Links.
ScenarioA(content, T) ==
  /\ \E q \in {DQ, SQ} :
       StartsWith(content,
                  <<"---", NL, "title:", SP, q>> \o T
                    \o <<q, NL, "description:", SP, DQ, "Follow these steps to connect", SP>>
                    \o T \o <<SP, "via the StackOne Hub successfully.", DQ, NL, "---">>)
  /\ Contains(content, <<"import IntegrationFooter from \"/snippets/integration-footer.mdx\"">>)
  /\ Contains(content, <<"<Warning>">>)
  /\ Contains(content, <<"<Step", "s>">>)
  /\ Contains(content, <<"<IntegrationFooter />">>)
  /\ Contains(content, <<"## ", "Linking your", SP>> \o T \o <<SP, "Account">>)
  /\ Contains(content, <<"## ", "Available data">>)

HasUsefulLinks(content) == Contains(content, <<"## ", "Useful Links">>)

OnlyUsefulLinksMissing == << <<"Missing 'Useful Links' section (recommended)">> >>

\* What analyze_mdx_file gives for a file that holds scenario A: no issue, or the one recommended issue.
ScenarioAResult(file) ==
  analyze_mdx_file(file) =
    [raised |-> FALSE, error |-> "",
     issues |-> IF HasUsefulLinks(file.content) THEN <<>>
                ELSE OnlyUsefulLinksMissing]

\* The file at position k is in non_compliant_files once, with the one
\* recommended issue, and not in compliant_files.
FlaggedForLinksOnly(k) ==
  /\ Cardinality(EntriesOf(k)) = 1
  /\ \A i \in EntriesOf(k) : non_compliant_files[i].issues = OnlyUsefulLinksMissing
  /\ RelativePath(queue[k]) \notin Range(compliant_files)

\* C8 as stated: a scenario A guide gets no issue with the Useful Links
\* heading and the one recommended issue without it, and without it main
\* puts the file in non_compliant_files, not in compliant_files.
C8_AsStated ==
  \A k \in DOMAIN queue :
    LET file == Open(queue[k])
    IN (file.ok /\ \E T \in {Acme, Globex} : ScenarioA(file.content, T)) =>
         /\ ScenarioAResult(file)
         /\ (Processed(k) /\ ~HasUsefulLinks(file.content))
              => FlaggedForLinksOnly(k)

\* C8, amended: the same, but main puts the file without the heading in
\* non_compliant_files only when is_simple_connect_guide is False for it;
\* when it is True the file is in simple_connect_guides and in no other
\* bucket.
C8_ScenarioA ==
  \A k \in DOMAIN queue :
    LET file == Open(queue[k])
        name == RelativePath(queue[k])
        links == HasUsefulLinks(file.content)
        simple == is_simple_connect_guide(file)
    IN (file.ok /\ \E T \in {Acme, Globex} : ScenarioA(file.content, T)) =>
         /\ ScenarioAResult(file)
         /\ (Processed(k) /\ ~links) =>
              IF simple
              THEN /\ name \in Range(simple_connect_guides)
                   /\ EntriesOf(k) = {}
                   /\ name \notin Range(compliant_files)
              ELSE FlaggedForLinksOnly(k)
         /\ (Processed(k) /\ links /\ ~simple)
              => /\ name \in Range(compliant_files)
                 /\ EntriesOf(k) = {}

\* A finished run with a scenario A guide that lacks only the Useful Links
\* heading and is in non_compliant_files for it.
C8_Witness ==
  /\ pc = "done"
  /\ \E k \in DOMAIN queue :
       /\ Open(queue[k]).ok
       /\ ScenarioA(Open(queue[k]).content, Acme)
       /\ ~HasUsefulLinks(Open(queue[k]).content)
       /\ EntriesOf(k) # {}

\* The issues of the description check in a list.
DescriptionIssues(issues) ==
  { i \in DOMAIN issues : Head(issues[i]) = "Incorrect description format. Expected: '" }

\* C9: with a quoted title T and a quoted description D in the frontmatter,
\* the description check adds an issue exactly when D is not the canonical
\* text for T and does not start with "Follow these steps to connect", and
\* that issue holds the canonical text and D; with no description field in
\* the frontmatter the issue is "Missing description".
C9_DescriptionCheck ==
  (ret_analyze.called /\ arg.ok /\ FrontmatterMatch(arg.content).matched) =>
    /\ \A q \in {DQ, SQ} : \A T \in {Acme, Globex} : \A D \in Descriptions :
         ( /\ Contains(arg.content, <<"title:", SP, q>> \o T \o <<q>>)
           /\ Contains(arg.content, <<"description:", SP, DQ>> \o D \o <<DQ>>) ) =>
           LET canonical == <<"Follow these steps to connect", SP>> \o T
                              \o <<SP, "via the StackOne Hub successfully.">>
               found == DescriptionIssues(ret_analyze.issues)
           IN /\ ~ret_analyze.raised
              /\ found # {} <=>
                   (D # canonical /\ ~StartsWith(D, <<"Follow these steps to connect">>))
              /\ Cardinality(found) <= 1
              /\ \A i \in found : /\ Contains(ret_analyze.issues[i], canonical)
                                  /\ Contains(ret_analyze.issues[i], D)
              /\ <<"Missing description">> \notin Range(ret_analyze.issues)
    /\ ~Contains(arg.content, <<"description:">>) =>
         /\ ~ret_analyze.raised
         /\ <<"Missing description">> \in Range(ret_analyze.issues)
         /\ DescriptionIssues(ret_analyze.issues) = {}

\* A call that reported a description that is not the expected one.
C9_Witness ==
  /\ ret_analyze.called /\ ~ret_analyze.raised
  /\ DescriptionIssues(ret_analyze.issues) # {}

\* The check an issue comes from, by how its text starts; 0 for a failed read.
CheckNumber(issue) ==
  CASE Head(issue) = "Could not read file: " -> 0
    [] Head(issue) = "Missing frontmatter" -> 1
    [] Head(issue) = "Missing or incorrectly formatted title" -> 2
    [] Head(issue) = "Missing description" -> 3
    [] Head(issue) = "Incorrect description format. Expected: '" -> 3
    [] Head(issue) = "Missing IntegrationFooter import" -> 4
    [] Head(issue) = "Missing Warning section" -> 5
    [] Head(issue) = "Missing Steps component" -> 6
    [] Head(issue) = "Missing IntegrationFooter component" -> 7
    [] Head(issue) = "Missing '" -> 8
    [] Head(issue) = "Missing 'Available data' section" -> 9
    [] Head(issue) = "Missing 'Useful Links' section (recommended)" -> 10

\* Where in queue the file a bucket names is.
PositionOf(name) == CHOOSE k \in DOMAIN queue : RelativePath(queue[k]) = name

\* The files a bucket names come in ascending path order.
Ascending(names) ==
  \A i, j \in DOMAIN names :
    i < j => PathLess(queue[PositionOf(names[i])], queue[PositionOf(names[j])])

\* C10: the loop takes the candidates in ascending path order whatever order
\* the walk gave them in, one after the other, so each bucket names its files
\* in ascending path order; the issues of a file come in the order of the
\* checks.
C10_SortedOrder ==
  /\ pc # "walk" =>
       /\ Len(queue) = Len(mdx_files)
       /\ Range(queue) = Range(mdx_files)
       /\ \A i, j \in DOMAIN queue : i < j => PathLess(queue[i], queue[j])
  /\ \A k \in DOMAIN queue : InSomeBucket(k) <=> Processed(k)
  /\ Ascending(simple_connect_guides)
  /\ Ascending(compliant_files)
  /\ Ascending([i \in DOMAIN non_compliant_files |-> non_compliant_files[i].path])
  /\ \A e \in DOMAIN non_compliant_files :
       \A i, j \in DOMAIN non_compliant_files[e].issues :
         i < j => CheckNumber(non_compliant_files[e].issues[i])
                    < CheckNumber(non_compliant_files[e].issues[j])

\* A finished run whose walk did not give the files in sorted order, with two
\* files in one bucket and several issues for a file.
C10_Witness ==
  /\ pc = "done"
  /\ queue # mdx_files
  /\ Len(non_compliant_files) >= 2
  /\ \E e \in DOMAIN non_compliant_files : Len(non_compliant_files[e].issues) >= 2

====
